---- MODULE Spec2Model ----
\* Job-lifecycle controller of the Research Navigator frontend:
\* Sidebar.tsx (handleGenerateGraph, handleUpdateGraph, trigger button, file
\* staging, perspective selection) together with the page state of Home
\* (loading, loadingProgress, graphData) that the Sidebar drives through its
\* callbacks.
EXTENDS Naturals, Sequences, FiniteSets, TLC

\* ---------------------------------------------------------------- bounds

\* Number of handler invocations (async continuations) that can exist side by side.
MaxRuns == 2
\* Ceiling of the per-run bookkeeping (status requests, progress calls, history).
MaxPolls == 4
\* Largest number of files one selection (file dialog or drop) hands over.
MaxBatch == 2
\* Largest number of nodes of a result whose layout is examined.
MaxNodes == 7

\* ---------------------------------------------------------------- values

RunIds == 1 .. MaxRuns

Modes == {"student", "researcher"}

FileNames == {"A.pdf"}

\* A value of type T | null is the empty sequence (null) or <<v>>.
Null == << >>

Some(v) == <<v>>

\* GraphResult payloads a status response can carry (nodes in order, edges).
EmptyResult == [nodes |-> << >>, edges |-> << >>]

OnePaperResult == [nodes |-> <<[id |-> "p1", label |-> "Paper 1"]>>, edges |-> << >>]

Results == {EmptyResult, OnePaperResult}

Statuses == {"queued", "running", "completed", "failed"}

\* error field of a status response: absent, the empty string, or a message.
ErrorFields == {Null, Some(""), Some("X")}

\* Decoded bodies of a 2xx status response. A pending status may carry a stray
\* result; a failed one may carry any error field; a completed one may lack its result.
StatusBodies ==
  [status : {"queued", "running"}, result : {Null, Some(OnePaperResult)}, error : {Null}]
  \cup [status : {"completed"}, result : {Null} \cup {Some(r) : r \in Results},
        error : {Null, Some("X")}]
  \cup [status : {"failed"}, result : {Null, Some(OnePaperResult)}, error : ErrorFields]

\* Outcome of a fetch: a 2xx response, a non-2xx response, or a rejected promise.
\* A status response that is not 2xx is never decoded, so it carries no payload.
StatusResponses ==
  {[net |-> "ok", code |-> "200", status |-> b.status, result |-> b.result, error |-> b.error] :
     b \in StatusBodies}
  \cup [net : {"http"}, code : {"500"}, status : {""}, result : {Null}, error : {Null}]
  \cup [net : {"reject"}, code : {""}, status : {""}, result : {Null}, error : {Null}]

SubmitResponses ==
  [net : {"ok"}, code : {"200"}] \cup [net : {"http"}, code : {"500"}]
  \cup [net : {"reject"}, code : {""}]

\* ---------------------------------------------------------------- state

VARIABLES
  user,             \* Sidebar: selected perspective
  files,            \* Sidebar: staged files (sequence of file names)
  lastGeneration,   \* Sidebar: null or {user, files} of the last successful run
  papers,           \* Sidebar: known papers {id, name} of the last result
  loading,          \* Home: loading flag
  loadingProgress,  \* Home: null or the last status snapshot
  graphData,        \* Home: nodes (with position) and edges handed to the canvas
  canvas,           \* GraphCanvas: nodes and styled edges given to ReactFlow
  openModal,        \* GraphCanvas: null or the node or edge that was clicked
  runs              \* invocations of handleGenerateGraph / handleUpdateGraph

vars == <<user, files, lastGeneration, papers, loading, loadingProgress, graphData, canvas, openModal,
          runs>>

\* A handler invocation: where its continuation stands (pc), the values its
\* closure captured when it was started, and what it has done so far.
\*   pc: "idle" (never started), "submit" (awaiting the POST), "poll" (awaiting
\*   a status response), "wait" (awaiting the inter-poll delay), "done".
IdleRun ==
  [pc |-> "idle", kind |-> "none", user |-> "student", files |-> << >>,
   papers |-> << >>, submit |-> Null, last |-> Null, polls |-> 0,
   answered |-> 0, running |-> 0, progress |-> 0, errs |-> << >>, delivered |-> 0]

InFlight == {"submit", "poll", "wait"}

Inc(n) == IF n < MaxPolls THEN n + 1 ELSE n

Init ==
  /\ user = "student"
  /\ files = << >>
  /\ lastGeneration = Null
  /\ papers = << >>
  /\ loading = FALSE
  /\ loadingProgress = Null
  /\ graphData = [nodes |-> << >>, edges |-> << >>]
  /\ canvas = [nodes |-> << >>, edges |-> << >>]
  /\ openModal = Null
  /\ runs = [i \in RunIds |-> IdleRun]

\* ---------------------------------------------------------------- Sidebar: inputs

Names(fs) == {fs[i] : i \in DOMAIN fs}

\* A FileList handed over by one selection. Files dropped together from
\* different folders can carry the same name.
Batches == UNION {[1 .. n -> FileNames] : n \in 1 .. MaxBatch}

\* newFiles.filter(f => !existingNames.has(f.name))
uniqueNewFiles(prevFiles, newFiles) ==
  SelectSeq(newFiles, LAMBDA f : f \notin Names(prevFiles))

handleSelectFiles(newFiles) ==
  /\ files' = files \o uniqueNewFiles(files, newFiles)
  /\ UNCHANGED <<user, lastGeneration, papers, loading, loadingProgress, graphData, canvas, openModal, runs>>

\* files.filter((_, index) => index !== i)
RemoveAt(s, i) == SubSeq(s, 1, i - 1) \o SubSeq(s, i + 1, Len(s))

removeFile(i) ==
  /\ i \in DOMAIN files
  /\ files' = RemoveAt(files, i)
  /\ UNCHANGED <<user, lastGeneration, papers, loading, loadingProgress, graphData, canvas, openModal, runs>>

setUser(u) ==
  /\ user' = u
  /\ UNCHANGED <<files, lastGeneration, papers, loading, loadingProgress, graphData, canvas, openModal, runs>>

\* ---------------------------------------------------------------- Sidebar: trigger button

hasDifferentFilesThanLastGeneration ==
  IF lastGeneration = Null THEN FALSE
  ELSE IF Len(files) # Len(lastGeneration[1].files) THEN TRUE
  ELSE \E i \in DOMAIN files : files[i] \notin Names(lastGeneration[1].files)

\* user === lastGeneration?.user
sameUserAsLastGeneration == lastGeneration # Null /\ user = lastGeneration[1].user

\* Variant: the button is not disabled while loading.
disabledWithoutLoading ==
  files = << >> /\ (papers = << >> \/ (sameUserAsLastGeneration /\ ~hasDifferentFilesThanLastGeneration))

\* Variant: a completed generation, not a known paper, counts as the existing graph.
disabledByLastGeneration ==
  (files = << >> /\ (lastGeneration = Null
                     \/ (sameUserAsLastGeneration /\ ~hasDifferentFilesThanLastGeneration)))
  \/ loading

\* Variant: unchanged inputs disable the button whether or not files are staged.
disabledWhenUnchanged ==
  (files = << >> /\ papers = << >>)
  \/ (sameUserAsLastGeneration /\ ~hasDifferentFilesThanLastGeneration)
  \/ loading

\* disabled={files.length === 0 && (papers.length === 0 || user === lastGeneration?.user && !hasDifferent...()) || loading}
disabled ==
  (files = << >> /\ (papers = << >> \/ (sameUserAsLastGeneration /\ ~hasDifferentFilesThanLastGeneration)))
  \/ loading

FreeSlots == {i \in RunIds : runs[i].pc \notin InFlight}

Lowest(S) == CHOOSE i \in S : \A j \in S : i <= j

\* Variant: sending the request empties the staged list.
StartRunConsumesFiles(kind) ==
  /\ FreeSlots # {}
  /\ runs' = [runs EXCEPT ![Lowest(FreeSlots)] =
                [IdleRun EXCEPT !.pc = "submit", !.kind = kind, !.user = user,
                                !.files = files, !.papers = papers]]
  /\ loading' = TRUE
  /\ files' = << >>
  /\ UNCHANGED <<user, lastGeneration, papers, loadingProgress, graphData, canvas, openModal>>

\* The synchronous head of a handler: setLoading(true), the request is sent,
\* and the handler suspends on the submission response.
StartRun(kind) ==
  /\ FreeSlots # {}
  /\ runs' = [runs EXCEPT ![Lowest(FreeSlots)] =
                [IdleRun EXCEPT !.pc = "submit", !.kind = kind, !.user = user,
                                !.files = files, !.papers = papers]]
  /\ loading' = TRUE
  /\ UNCHANGED <<user, files, lastGeneration, papers, loadingProgress, graphData, canvas, openModal>>

handleGenerateGraph ==
  IF files = << >> THEN UNCHANGED vars ELSE StartRun("generate")

handleUpdateGraph ==
  IF papers = << >> \/ loading THEN UNCHANGED vars ELSE StartRun("update")

\* Variant: without files the click starts an update whatever the button and
\* the handler would test.
clickTriggerUnguarded ==
  IF files # << >> THEN ~disabled /\ handleGenerateGraph ELSE StartRun("update")

\* Variant: the click is routed by the known papers, not by the staged files.
clickTriggerByPapers ==
  /\ ~disabled
  /\ IF papers # << >> THEN handleUpdateGraph ELSE handleGenerateGraph

\* onClick of the trigger button; a disabled button delivers no click.
clickTrigger ==
  /\ ~disabled
  /\ IF files # << >> THEN handleGenerateGraph ELSE handleUpdateGraph

\* Text of the trigger button.
buttonLabel ==
  IF loading THEN "Analyzing..."
  ELSE IF hasDifferentFilesThanLastGeneration THEN "Regenerate with new papers"
  ELSE IF papers # << >> /\ ~sameUserAsLastGeneration THEN "Regenerate with new perspective"
  ELSE "Generate Graph"

\* The submission a handler invocation sends: the FormData of the staged files
\* and user_type to /process-batch, or the JSON {mode, papers} to /graph.
requestOf(r) ==
  IF r.kind = "generate"
  THEN [url |-> "/process-batch", body |-> "multipart", mode |-> r.user,
        files |-> r.files, papers |-> << >>]
  ELSE [url |-> "/graph", body |-> "json", mode |-> r.user,
        files |-> << >>, papers |-> r.papers]

\* ---------------------------------------------------------------- handler bodies

\* Variant: the response's ok flag is not looked at.
submitBranchUnchecked(sr) == "poll"

\* if (!response.ok) throw ...; otherwise the job id is read and the loop entered.
submitBranch(sr) == IF sr.net = "ok" THEN "poll" ELSE "throw"

\* Variant: a status fetch that did not succeed is slept on and retried.
pollBranchRetries(resp) ==
  IF resp.net = "ok" /\ resp.status = "completed" /\ resp.result # Null THEN "deliver"
  ELSE IF resp.net = "ok" /\ resp.status = "failed" THEN "fail"
  ELSE "wait"

\* Variant: a result is taken from any decoded response that carries one.
pollBranchAnyResult(resp) ==
  IF resp.net # "ok" THEN "throw"
  ELSE IF resp.result # Null THEN "deliver"
  ELSE IF resp.status = "failed" THEN "fail"
  ELSE "wait"

\* Variant: a failed job that carries a result is delivered as well.
pollBranchDeliversFailed(resp) ==
  IF resp.net # "ok" THEN "throw"
  ELSE IF resp.status \in {"completed", "failed"} /\ resp.result # Null THEN "deliver"
  ELSE IF resp.status = "failed" THEN "fail"
  ELSE "wait"

\* What the loop body does with the outcome of one status fetch:
\*   "throw"   the fetch rejected or !statusResponse.ok
\*   "deliver" status === 'completed' && result
\*   "fail"    status === 'failed'
\*   "wait"    anything else: sleep, then poll again
pollBranch(resp) ==
  IF resp.net # "ok" THEN "throw"
  ELSE IF resp.status = "completed" /\ resp.result # Null THEN "deliver"
  ELSE IF resp.status = "failed" THEN "fail"
  ELSE "wait"

\* Message of the Error thrown while submitting (a rejected fetch carries its own).
submitThrown(kind, sr) ==
  IF sr.net = "reject" THEN "Failed to fetch"
  ELSE IF kind = "generate" THEN "Failed to start processing (" \o sr.code \o ")"
  ELSE "Failed to start graph update (" \o sr.code \o ")"

pollThrown(resp) ==
  IF resp.net = "reject" THEN "Failed to fetch" ELSE "Failed to check job status"

genericJobError(kind) ==
  IF kind = "generate" THEN "Processing failed with unknown error"
  ELSE "Graph update failed with unknown error"

\* Variant: the server's error field is ignored.
jobErrorMessageGeneric(kind, resp) == genericJobError(kind)

\* statusData.error || "<generic>": an absent or empty error is falsy.
jobErrorMessage(kind, resp) ==
  IF resp.error # Null /\ resp.error[1] # "" THEN resp.error[1] ELSE genericJobError(kind)

\* Variant: the 'failed' branch reports the error and then throws it as well.
pollErrorsRethrown(kind, resp) ==
  CASE pollBranch(resp) = "throw" -> <<pollThrown(resp)>>
    [] pollBranch(resp) = "fail" -> <<jobErrorMessage(kind, resp), jobErrorMessage(kind, resp)>>
    [] OTHER -> << >>

\* The onError calls of one pass through the loop body, in order. A thrown
\* Error reaches the catch block, which reports error.message.
pollErrors(kind, resp) ==
  CASE pollBranch(resp) = "throw" -> <<pollThrown(resp)>>
    [] pollBranch(resp) = "fail" -> <<jobErrorMessage(kind, resp)>>
    [] OTHER -> << >>

\* Variant: progress is reported only when the loop is going to sleep.
progressCallsPendingOnly(resp) == IF pollBranch(resp) = "wait" THEN 1 ELSE 0

\* onProgressUpdate(statusData) is called once the response is decoded.
progressCalls(resp) == IF resp.net = "ok" THEN 1 ELSE 0

\* Variant: the cleanup forgets the loading flag.
finallyKeepsLoading == [loading |-> loading, loadingProgress |-> Null]

\* Variant: the cleanup leaves the last progress snapshot in place.
finallyKeepsProgress == [loading |-> FALSE, loadingProgress |-> loadingProgress]

\* finally { setLoading(false); onProgressUpdate(null); }
finallyBlock == [loading |-> FALSE, loadingProgress |-> Null]

\* Variant: the mode and files on screen at delivery are recorded.
recordedGenerationCurrent(r) == Some([user |-> user, files |-> files])

\* setLastGeneration({ user, files }): the handler's closure holds the user and
\* files of the render in which the button was clicked.
recordedGeneration(r) == Some([user |-> r.user, files |-> r.files])

\* Variant: every node is laid out on the first row.
nodesWithPosOneRow(nodes) ==
  [i \in DOMAIN nodes |->
     [id |-> nodes[i].id, label |-> nodes[i].label,
      position |-> [x |-> 100 * ((i - 1) % 5), y |-> 0]]]

\* position: { x: 100 * (index % 5), y: 100 * Math.floor(index / 5) }, index from 0
nodesWithPos(nodes) ==
  [i \in DOMAIN nodes |->
     [id |-> nodes[i].id, label |-> nodes[i].label,
      position |-> [x |-> 100 * ((i - 1) % 5), y |-> 100 * ((i - 1) \div 5)]]]

\* statusData.result.nodes.map(n => ({ id: n.id, name: n.data.label }))
papersOf(nodes) == [i \in DOMAIN nodes |-> [id |-> nodes[i].id, name |-> nodes[i].label]]

\* ---------------------------------------------------------------- GraphCanvas

\* Property names every object literal inherits from Object.prototype (a sample).
ObjectPrototypeKeys == {"constructor", "toString"}

DefaultColor == "#94a3b8"

\* RELATION_COLORS[relationType]: the own entries of the literal, an inherited
\* member for a name found on the prototype chain, undefined (Null) otherwise.
RELATION_COLORS(relationType) ==
  CASE relationType = "Supports" -> Some("#22c55e")
    [] relationType = "Contradicts" -> Some("#ef4444")
    [] relationType = "Extends" -> Some("#3b82f6")
    [] relationType = "Default" -> Some(DefaultColor)
    [] relationType \in ObjectPrototypeKeys -> Some("[Function]")
    [] OTHER -> Null

\* edge.data?.relation_type || 'Default': a missing or empty kind is falsy.
relationTypeOf(edge) ==
  IF edge.relation_type # Null /\ edge.relation_type[1] # ""
  THEN edge.relation_type[1] ELSE "Default"

\* RELATION_COLORS[relationType] || RELATION_COLORS.Default
colorOf(relationType) ==
  IF RELATION_COLORS(relationType) # Null
  THEN RELATION_COLORS(relationType)[1] ELSE RELATION_COLORS("Default")[1]

\* Variant: only the palette's three kinds are labelled.
labelOfPaletteOnly(relationType) ==
  IF relationType \in {"Supports", "Contradicts", "Extends"} THEN relationType ELSE ""

\* relationType !== 'Default' ? relationType : ''
labelOf(relationType) == IF relationType # "Default" THEN relationType ELSE ""

\* animated: relationType === 'Extends'
animatedOf(relationType) == relationType = "Extends"

\* One element of styledEdges.
styledEdge(edge) ==
  [id |-> edge.id, source |-> edge.source, target |-> edge.target,
   relation_type |-> edge.relation_type,
   type |-> "custom",
   animated |-> animatedOf(relationTypeOf(edge)),
   stroke |-> colorOf(relationTypeOf(edge)),
   markerEnd |-> [type |-> "arrowclosed", color |-> colorOf(relationTypeOf(edge))],
   label |-> labelOf(relationTypeOf(edge))]

\* Variant: the new nodes and edges are appended to those on the canvas.
renderEffectMerging(data) ==
  [nodes |-> canvas.nodes \o data.nodes,
   edges |-> canvas.edges \o [k \in DOMAIN data.edges |-> styledEdge(data.edges[k])]]

\* The effect on [initialNodes, initialEdges]: setNodes(initialNodes); setEdges(styledEdges).
renderEffect(data) ==
  [nodes |-> data.nodes, edges |-> [k \in DOMAIN data.edges |-> styledEdge(data.edges[k])]]

\* Variant: the effect closes the modal.
selectionClearedByEffect == Null

\* The effect calls setNodes and setEdges only: openModal keeps the clicked object.
selectionAfterEffect == openModal

Range(s) == {s[k] : k \in DOMAIN s}

\* Variant: a click adds the clicked object's properties to the open one.
setOpenModalMerging(item) ==
  IF openModal = Null THEN Some(item)
  ELSE Some([f \in DOMAIN openModal[1] \cup DOMAIN item |->
               IF f \in DOMAIN item THEN item[f] ELSE openModal[1][f]])

\* setOpenModal(item)
setOpenModal(item) == Some(item)

\* onNodeClick: ReactFlow hands over the clicked node of the canvas.
handleNodeClick(node) ==
  /\ node \in Range(canvas.nodes)
  /\ openModal' = setOpenModal(node)
  /\ UNCHANGED <<user, files, lastGeneration, papers, loading, loadingProgress, graphData,
                 canvas, runs>>

\* onEdgeClick: ReactFlow hands over the clicked edge of the canvas.
handleEdgeClick(edge) ==
  /\ edge \in Range(canvas.edges)
  /\ openModal' = setOpenModal(edge)
  /\ UNCHANGED <<user, files, lastGeneration, papers, loading, loadingProgress, graphData,
                 canvas, runs>>

\* closeModal of the modal on screen: () => setOpenModal(null)
closeModal ==
  /\ openModal # Null
  /\ openModal' = Null
  /\ UNCHANGED <<user, files, lastGeneration, papers, loading, loadingProgress, graphData,
                 canvas, runs>>

\* item !== null && 'source' in item && 'target' in item
isEdge(item) == item # Null /\ "source" \in DOMAIN item[1] /\ "target" \in DOMAIN item[1]

\* Variant: whatever is not an edge counts as a node, and so does an edge.
isNodeAnything(item) == item # Null

\* item !== null && 'position' in item
isNode(item) == item # Null /\ "position" \in DOMAIN item[1]

\* {openModal && isEdge(openModal) && openModal && <EdgeModal .../>}
EdgeModalShown == openModal # Null /\ isEdge(openModal)

\* {openModal && isNode(openModal) && <NodeModal .../>}
NodeModalShown == openModal # Null /\ isNode(openModal)

\* nodes.find(n => n.id === id): the first node of that id, or none.
findNode(nodes, id) ==
  LET hits == {k \in DOMAIN nodes : nodes[k].id = id} IN
  IF hits = {} THEN Null ELSE Some(nodes[CHOOSE k \in hits : \A h \in hits : k <= h])

\* Variant: an endpoint without a node is shown as nothing.
endpointShownLabelOnly(nodes, id) ==
  IF findNode(nodes, id) # Null THEN findNode(nodes, id)[1].label ELSE ""

\* nodes.find(n => n.id === id)?.data?.label || id
endpointShown(nodes, id) ==
  IF findNode(nodes, id) # Null /\ findNode(nodes, id)[1].label # ""
  THEN findNode(nodes, id)[1].label ELSE id

\* The two endpoint lines of the EdgeModal for the open edge.
EdgeModalEndpoints ==
  [paperA |-> endpointShown(canvas.nodes, openModal[1].source),
   paperB |-> endpointShown(canvas.nodes, openModal[1].target)]

\* ---------------------------------------------------------------- continuations

\* The submission fetch settles.
submitSettled(i, sr) ==
  LET r == [runs[i] EXCEPT !.submit = Some(sr)] IN
  /\ runs[i].pc = "submit"
  /\ IF submitBranch(sr) = "throw"
     THEN /\ runs' = [runs EXCEPT ![i] =
                        [r EXCEPT !.pc = "done",
                                  !.errs = Append(@, submitThrown(r.kind, sr))]]
          /\ loading' = finallyBlock.loading
          /\ loadingProgress' = finallyBlock.loadingProgress
          /\ UNCHANGED <<user, files, lastGeneration, papers, graphData, canvas, openModal>>
     ELSE /\ runs' = [runs EXCEPT ![i] = [r EXCEPT !.pc = "poll", !.polls = Inc(@)]]
          /\ UNCHANGED <<user, files, lastGeneration, papers, loading, loadingProgress, graphData, canvas, openModal>>

\* A status fetch settles: one pass through the loop body, up to the next await
\* or, when the loop ends, through the finally block.
statusSettled(i, resp) ==
  LET b == pollBranch(resp)
      r == [runs[i] EXCEPT !.last = Some(resp),
                           !.answered = IF resp.net = "ok" THEN Inc(@) ELSE @,
                           !.running = IF resp.net = "ok" /\ resp.status = "running"
                                       THEN Inc(@) ELSE @,
                           !.progress = IF progressCalls(resp) = 1 THEN Inc(@) ELSE @,
                           !.errs = @ \o pollErrors(runs[i].kind, resp)]
  IN
  /\ runs[i].pc = "poll"
  /\ IF b = "wait"
     THEN /\ runs' = [runs EXCEPT ![i] = [r EXCEPT !.pc = "wait"]]
          /\ loadingProgress' = IF progressCalls(resp) = 1 THEN Some(resp) ELSE loadingProgress
          /\ UNCHANGED <<user, files, lastGeneration, papers, loading, graphData, canvas, openModal>>
     ELSE /\ loading' = finallyBlock.loading
          /\ loadingProgress' = finallyBlock.loadingProgress
          /\ IF b = "deliver"
             THEN /\ runs' = [runs EXCEPT ![i] = [r EXCEPT !.pc = "done", !.delivered = Inc(@)]]
                  /\ papers' = papersOf(resp.result[1].nodes)
                  /\ lastGeneration' = recordedGeneration(r)
                  /\ graphData' = [nodes |-> nodesWithPos(resp.result[1].nodes),
                                   edges |-> resp.result[1].edges]
                  /\ canvas' = renderEffect(graphData')
                  /\ openModal' = selectionAfterEffect
                  /\ UNCHANGED <<user, files>>
             ELSE /\ runs' = [runs EXCEPT ![i] = [r EXCEPT !.pc = "done"]]
                  /\ UNCHANGED <<user, files, lastGeneration, papers, graphData, canvas, openModal>>

\* The inter-poll delay (2 s update, 5 s generate) elapses: the next status fetch is sent.
delayElapsed(i) ==
  /\ runs[i].pc = "wait"
  /\ runs' = [runs EXCEPT ![i] = [@ EXCEPT !.pc = "poll", !.polls = Inc(@)]]
  /\ UNCHANGED <<user, files, lastGeneration, papers, loading, loadingProgress, graphData, canvas, openModal>>

\* ---------------------------------------------------------------- specification

RunStep ==
  \/ \E i \in RunIds, sr \in SubmitResponses : submitSettled(i, sr)
  \/ \E i \in RunIds, resp \in StatusResponses : statusSettled(i, resp)
  \/ \E i \in RunIds : delayElapsed(i)

UserStep ==
  \/ \E b \in Batches : handleSelectFiles(b)
  \/ \E i \in 1 .. MaxBatch * Cardinality(FileNames) : removeFile(i)
  \/ \E u \in Modes : setUser(u)
  \/ clickTrigger

Next == RunStep \/ UserStep

Spec == Init /\ [][Next]_vars

\* Every awaited response and delay of a run eventually resolves.
FairSpec == Init /\ [][Next]_vars /\ WF_vars(RunStep)

\* ---------------------------------------------------------------- rendering runs

\* relation_type of an edge as the server can send it: missing, empty, the
\* palette's names, and names the palette does not list.
RelationFields ==
  {Null, Some(""), Some("Default"), Some("Supports"), Some("Contradicts"),
   Some("Extends"), Some("Cites"), Some("constructor")}

PaperNode(k) == [id |-> "p" \o ToString(k), label |-> "Paper " \o ToString(k)]

\* A result of n nodes in order, without edges.
GridResult(n) == [nodes |-> [k \in 1 .. n |-> PaperNode(k)], edges |-> << >>]

\* A result of two nodes joined by one edge of the given relation_type.
KindResult(rt) ==
  [nodes |-> <<PaperNode(1), PaperNode(2)>>,
   edges |-> <<[id |-> "e1", source |-> "p1", target |-> "p2", relation_type |-> rt]>>]

RenderResults ==
  {GridResult(n) : n \in 0 .. MaxNodes} \cup {KindResult(rt) : rt \in RelationFields}

\* Status responses of a job that completes at its first poll.
RenderResponses ==
  {[net |-> "ok", code |-> "200", status |-> "completed", result |-> Some(r), error |-> Null] :
     r \in RenderResults}

RenderNext ==
  \/ \E i \in RunIds : submitSettled(i, [net |-> "ok", code |-> "200"])
  \/ \E i \in RunIds, resp \in RenderResponses : statusSettled(i, resp)
  \/ UserStep

\* The Sidebar and canvas driven by jobs that complete with a result of any
\* size and any relation kind.
RenderSpec == Init /\ [][RenderNext]_vars

\* ---------------------------------------------------------------- selection runs

UntitledNode(k) == [id |-> "p" \o ToString(k), label |-> ""]

EdgeOf(id, source, target) ==
  [id |-> id, source |-> source, target |-> target, relation_type |-> Some("Supports")]

\* Two nodes joined by one edge.
LinkedResult ==
  [nodes |-> <<PaperNode(1), PaperNode(2)>>, edges |-> <<EdgeOf("e1", "p1", "p2")>>]

\* One node and edges whose target, source, or both name no node of the result.
DanglingResult ==
  [nodes |-> <<PaperNode(1)>>,
   edges |-> <<EdgeOf("e2", "p1", "p9"), EdgeOf("e3", "p9", "p1"), EdgeOf("e4", "p8", "p9")>>]

\* An edge from a node whose label is the empty string.
UntitledResult ==
  [nodes |-> <<UntitledNode(3), PaperNode(2)>>, edges |-> <<EdgeOf("e5", "p3", "p2")>>]

CanvasResults == {EmptyResult, LinkedResult, DanglingResult, UntitledResult}

CanvasResponses ==
  {[net |-> "ok", code |-> "200", status |-> "completed", result |-> Some(r), error |-> Null] :
     r \in CanvasResults}

SelectStep ==
  \/ \E node \in Range(canvas.nodes) : handleNodeClick(node)
  \/ \E edge \in Range(canvas.edges) : handleEdgeClick(edge)
  \/ closeModal

CanvasNext ==
  \/ \E i \in RunIds : submitSettled(i, [net |-> "ok", code |-> "200"])
  \/ \E i \in RunIds, resp \in CanvasResponses : statusSettled(i, resp)
  \/ UserStep
  \/ SelectStep

\* The Sidebar and canvas with the clicks on the canvas and the modals, driven
\* by jobs that complete with linked, dangling and untitled results.
CanvasSpec == Init /\ [][CanvasNext]_vars

\* ---------------------------------------------------------------- properties

\* The last status fetch of run i settled with a decoded 2xx response.
Answered(i) == runs[i].last # Null /\ runs[i].last[1].net = "ok"

LastStatus(i) == runs[i].last[1].status

LastHasResult(i) == runs[i].last[1].result # Null

Ended(i) == runs[i].pc = "done"

Running(i) == runs[i].pc \in InFlight

\* C1: a run whose last successful poll returned 'completed' without a result
\* has failed with one job-failure error and has stopped (it is not going to
\* poll again).
C1_CompletedWithoutResultFails ==
  \A i \in RunIds :
    (Answered(i) /\ LastStatus(i) = "completed" /\ ~LastHasResult(i))
      => (Ended(i) /\ Len(runs[i].errs) = 1)

\* C2: under fairness of the run's own steps, once the status endpoint has
\* returned a terminal status ('completed' or 'failed') to a run, that run
\* eventually ends and loading becomes false.
C2_TerminalStatusEndsRun ==
  \A i \in RunIds :
    (Running(i) /\ Answered(i) /\ LastStatus(i) \in {"completed", "failed"})
      ~> (Ended(i) /\ ~loading)

\* C3: loading is true exactly in the states in which a run is in flight; in
\* particular it is false once the run has ended, by whichever path.
C3_LoadingIffInFlight ==
  loading <=> (\E i \in RunIds : Running(i))

C3_Witness ==
  \E i \in RunIds :
    /\ Ended(i) /\ ~loading
    /\ runs[i].last # Null /\ runs[i].last[1].net = "http"

\* C4: a status fetch that came back non-2xx ends the run: the run is over, the
\* error has been surfaced once, every status request of the run has settled,
\* and a run that is over does nothing more until the trigger starts a new run
\* (which begins again at the submission, with no poll issued).
C4_PollFailureIsFatal ==
  /\ [](\A i \in RunIds :
          (runs[i].last # Null /\ runs[i].last[1].net = "http")
            => /\ Ended(i)
               /\ runs[i].errs = <<"Failed to check job status">>
               /\ runs[i].delivered = 0)
  /\ [][\A i \in RunIds :
          Ended(i) => \/ runs'[i] = runs[i]
                      \/ (runs'[i].pc = "submit" /\ runs'[i].polls = 0 /\ loading')]_vars

C4_Witness ==
  \E i \in RunIds :
    /\ Ended(i)
    /\ runs[i].last # Null /\ runs[i].last[1].net = "http"
    /\ runs[i].answered >= 1

\* C5: a submission that came back non-2xx ends the run at once, and no status
\* request is ever issued for that run.
C5_SubmitFailureNeverPolls ==
  \A i \in RunIds :
    (runs[i].submit # Null /\ runs[i].submit[1].net = "http")
      => /\ Ended(i)
         /\ runs[i].polls = 0
         /\ runs[i].last = Null
         /\ Len(runs[i].errs) = 1

C5_Witness ==
  \E i \in RunIds :
    Ended(i) /\ runs[i].submit # Null /\ runs[i].submit[1].net = "http" /\ runs[i].kind = "update"

\* A run has failed: its submission, a status fetch, or the job.
Failed(i) ==
  \/ runs[i].submit # Null /\ runs[i].submit[1].net # "ok"
  \/ runs[i].last # Null /\ runs[i].last[1].net # "ok"
  \/ Answered(i) /\ LastStatus(i) = "failed"

Succeeded(i) == Answered(i) /\ LastStatus(i) = "completed" /\ LastHasResult(i)

\* C6: the error callback is invoked exactly once by a run that failed, never by
\* a run that succeeded, and never by a run that is still in flight.
C6_ErrorCallbackOnceIffFailed ==
  \A i \in RunIds :
    /\ Ended(i) /\ Failed(i) => Len(runs[i].errs) = 1
    /\ Ended(i) /\ Succeeded(i) => runs[i].errs = << >>
    /\ Running(i) => runs[i].errs = << >>
    /\ Ended(i) => Failed(i) \/ Succeeded(i)

C6_Witness ==
  \E i \in RunIds : Ended(i) /\ Answered(i) /\ LastStatus(i) = "failed" /\ Len(runs[i].errs) = 1

C8_ErrorStringWheneverPresent ==
  \A i \in RunIds :
    (Ended(i) /\ Answered(i) /\ LastStatus(i) = "failed")
      => runs[i].errs = << IF runs[i].last[1].error # Null
                           THEN runs[i].last[1].error[1]
                           ELSE genericJobError(runs[i].kind) >>

\* C8 amended: after a poll returning 'failed', the message given to the error
\* callback is the server's error string when that string is present and not
\* empty, and the generic message when it is absent or empty.
C8_ErrorStringWhenNonEmpty ==
  \A i \in RunIds :
    (Ended(i) /\ Answered(i) /\ LastStatus(i) = "failed")
      => /\ runs[i].last[1].error = Some("X") => runs[i].errs = <<"X">>
         /\ runs[i].last[1].error \in {Null, Some("")}
              => runs[i].errs = << IF runs[i].kind = "generate"
                                   THEN "Processing failed with unknown error"
                                   ELSE "Graph update failed with unknown error" >>

C8_Witness ==
  \E i \in RunIds :
    Ended(i) /\ Answered(i) /\ LastStatus(i) = "failed" /\ runs[i].errs = <<"X">>

\* C9: a run has delivered a result exactly when its last poll returned
\* 'completed' with a result; it then delivered once and is over with every
\* status request settled; no delivery follows a 'queued', 'running' or
\* 'failed' response.
C9_DeliverOnceOnCompleted ==
  \A i \in RunIds :
    /\ runs[i].delivered <= 1
    /\ runs[i].delivered = 1 <=> Succeeded(i)
    /\ Succeeded(i) => (Ended(i) /\ runs[i].polls = runs[i].answered)

C9_Witness ==
  \E i \in RunIds :
    /\ Succeeded(i) /\ Ended(i) /\ runs[i].delivered = 1
    /\ graphData.nodes # << >>

\* C10: at most one run is in flight in any reachable state.
C10_AtMostOneRun ==
  Cardinality({i \in RunIds : Running(i)}) <= 1

\* A run is in flight while the inputs alone would leave the button enabled.
C10_Witness ==
  /\ \E i \in RunIds : Running(i) /\ runs[i].kind = "update"
  /\ ~disabledWithoutLoading
  /\ files # << >>

\* ---------------------------------------------------------------- properties: regeneration policy

\* The mode differs from the one of the last successful generation.
ModeChanged == lastGeneration # Null /\ user # lastGeneration[1].user

\* The staged file names, as a set, differ from those of the last successful generation.
FileSetChanged == lastGeneration # Null /\ Names(files) # Names(lastGeneration[1].files)

\* C11 as stated: the button is disabled exactly when a job is in flight, or no
\* file is staged and either no generation has completed before (whatever the
\* size of its result) or neither the mode nor the file-name set changed.
C11_DisabledIffNoCompletedGeneration ==
  disabled <=>
    \/ loading
    \/ files = << >> /\ (lastGeneration = Null \/ (~ModeChanged /\ ~FileSetChanged))

\* C11 amended: the button is disabled exactly when a job is in flight, or no
\* file is staged and either the graph on display has no node (no generation
\* has completed, or the last one returned zero nodes) or neither the mode nor
\* the file-name set changed since the last successful generation.
C11_DisabledIffNoKnownPaper ==
  disabled <=>
    \/ loading
    \/ files = << >> /\ (graphData.nodes = << >> \/ (~ModeChanged /\ ~FileSetChanged))

\* A generation that returned zero nodes is behind, the mode has changed since.
C11_Witness ==
  /\ lastGeneration # Null /\ graphData.nodes = << >>
  /\ files = << >> /\ ModeChanged /\ ~loading
  /\ disabled

\* The graph on display was generated with the mode and the file names now
\* selected, and files are staged.
SameInputsRestaged ==
  /\ lastGeneration # Null /\ graphData.nodes # << >>
  /\ files # << >>
  /\ ~ModeChanged /\ ~FileSetChanged

\* C12 as stated: with the mode and the staged file names equal to those of the
\* last generation, the button is disabled.
C12_RestagedSameFilesDisabled == SameInputsRestaged => disabled

\* C12 amended: with the mode and the staged file names equal to those of the
\* last generation, the button is disabled only while a job is in flight;
\* staged files keep it enabled otherwise.
C12_RestagedSameFilesEnabled == SameInputsRestaged => (disabled <=> loading)

C12_Witness ==
  /\ SameInputsRestaged /\ ~loading /\ ~disabled
  /\ lastGeneration[1].files = <<"A.pdf">> /\ files = <<"A.pdf">>

\* C13: when no job is in flight, the label is "Regenerate with new papers"
\* whenever the staged file-name set differs from that of the last successful
\* generation; otherwise "Regenerate with new perspective" when a graph with
\* nodes exists and the mode differs; otherwise "Generate Graph"; and with
\* files staged the button is enabled.
C13_LabelPrecedence ==
  ~loading =>
    /\ buttonLabel = IF FileSetChanged THEN "Regenerate with new papers"
                     ELSE IF graphData.nodes # << >> /\ ModeChanged
                          THEN "Regenerate with new perspective"
                     ELSE "Generate Graph"
    /\ files # << >> => ~disabled

\* Every started run was routed by the files staged at its click.
RoutedByFiles(r) ==
  /\ r.kind = "generate" =>
       /\ r.files # << >>
       /\ requestOf(r) = [url |-> "/process-batch", body |-> "multipart",
                          mode |-> r.user, files |-> r.files, papers |-> << >>]
  /\ r.kind = "update" =>
       /\ r.files = << >> /\ r.papers # << >>
       /\ requestOf(r).url = "/graph" /\ requestOf(r).body = "json"
       /\ requestOf(r).files = << >> /\ requestOf(r).papers = r.papers
       /\ requestOf(r).mode = r.user

\* Run i is started by the step.
Started(i) == runs'[i].pc = "submit" /\ runs[i].pc # "submit"

\* C14: a click with files staged starts a fresh generation that uploads the
\* staged files and the mode to /process-batch; a click without files starts
\* an update that posts the mode and the known papers to /graph and uploads no
\* file; no step starts two runs, and no update starts while files are staged.
C14_ActionRouting ==
  /\ [](\A i \in RunIds : runs[i].pc # "idle" => RoutedByFiles(runs[i]))
  /\ [][/\ Cardinality({j \in RunIds : Started(j)}) <= 1
          /\ \A i \in RunIds :
               Started(i) =>
                 /\ runs'[i].user = user
                 /\ files # << >> => (runs'[i].kind = "generate" /\ runs'[i].files = files)
                 /\ files = << >> => (runs'[i].kind = "update" /\ runs'[i].papers = papers
                                       /\ papers # << >>)]_vars

\* An update is in flight for a graph whose files have been removed.
C14_Witness ==
  \E i \in RunIds :
    /\ runs[i].kind = "update" /\ runs[i].pc = "poll"
    /\ requestOf(runs[i]).papers # << >>
    /\ lastGeneration # Null /\ lastGeneration[1].files # << >>

\* C15: filesChanged is true exactly when the set of staged file names differs
\* from the set of file names of the last successful generation, and false
\* when no generation has occurred.
C15_FilesChangedIsSetInequality ==
  hasDifferentFilesThanLastGeneration <=> FileSetChanged

\* C16: the staged file list never holds two files of the same name, and an
\* addition keeps the staged files in place and appends the new names in order.
C16_StagedNamesUnique ==
  \A i, j \in DOMAIN files : files[i] = files[j] => i = j

\* ---------------------------------------------------------------- properties: rendering

\* The relation kinds the palette lists besides the default.
PaletteKinds == {"Supports", "Contradicts", "Extends"}

\* C17 as stated: the label of a rendered edge is its relation kind when the
\* kind is one of Supports, Contradicts, Extends, and empty for every other
\* kind and for a missing kind.
C17_LabelOnlyForPaletteKinds ==
  \A k \in DOMAIN canvas.edges :
    LET rt == graphData.edges[k].relation_type IN
    canvas.edges[k].label = IF rt # Null /\ rt[1] \in PaletteKinds THEN rt[1] ELSE ""

\* C17 amended: the label of a rendered edge is its relation kind, whether the
\* palette lists it or not, and empty only when the kind is missing, the empty
\* string or the literal "Default".
C17_LabelUnlessDefault ==
  /\ DOMAIN canvas.edges = DOMAIN graphData.edges
  /\ \A k \in DOMAIN canvas.edges :
       LET rt == graphData.edges[k].relation_type IN
       canvas.edges[k].label = IF rt = Null \/ rt[1] \in {"", "Default"} THEN "" ELSE rt[1]

\* An edge of a kind the palette does not list is on the canvas with its label.
C17_Witness ==
  \E k \in DOMAIN canvas.edges :
    /\ graphData.edges[k].relation_type = Some("Cites")
    /\ canvas.edges[k].label = "Cites"

\* C18: every rendered edge has the palette color of its relation kind, the
\* neutral default color when the kind is unknown or missing, and is animated
\* exactly when its kind is Extends.
C18_StylingTotal ==
  /\ DOMAIN canvas.edges = DOMAIN graphData.edges
  /\ \A k \in DOMAIN canvas.edges :
       LET rt == graphData.edges[k].relation_type
           color == IF rt # Null /\ rt[1] \in PaletteKinds
                    THEN RELATION_COLORS(rt[1])[1] ELSE DefaultColor
       IN /\ canvas.edges[k].stroke = color
          /\ canvas.edges[k].markerEnd.color = color
          /\ canvas.edges[k].animated <=> (rt = Some("Extends"))

\* Node i (counted from 0) of the list is at column i mod 5 and row floor(i / 5)
\* of a grid of pitch 100.
OnGrid(nodes) ==
  \A i \in DOMAIN nodes : \A q \in 0 .. Len(nodes), r \in 0 .. 4 :
    i - 1 = 5 * q + r => nodes[i].position = [x |-> 100 * r, y |-> 100 * q]

\* C19: after either kind of run the node at ordinal index i of the delivered
\* and of the rendered graph is at (100 * (i mod 5), 100 * floor(i / 5)), and
\* no two nodes of the graph share a position.
C19_GridLayout ==
  /\ OnGrid(graphData.nodes) /\ OnGrid(canvas.nodes)
  /\ \A i, j \in DOMAIN canvas.nodes :
       canvas.nodes[i].position = canvas.nodes[j].position => i = j

\* An update has delivered a graph whose nodes fill more than one row.
C19_Witness ==
  \E i \in RunIds :
    /\ runs[i].kind = "update" /\ Ended(i) /\ Succeeded(i)
    /\ Len(canvas.nodes) > 5
    /\ canvas.nodes[6].position = [x |-> 0, y |-> 100]

\* ---------------------------------------------------------------- properties: frame of a run

\* The step belongs to a run: it starts one or resumes one.
StepOfRun == runs' # runs

\* C25: no step of a run, from the click that starts it to its end by any
\* path, changes the staged file list or the selected mode.
C25_RunLeavesInputs == [][StepOfRun => (files' = files /\ user' = user)]_vars

\* A generation has ended with the files it uploaded still staged.
C25_Witness ==
  \E i \in RunIds :
    /\ Ended(i) /\ runs[i].kind = "generate"
    /\ files = runs[i].files /\ user = runs[i].user /\ files # << >>

\* Run i delivers a result in the step.
Delivers(i) == runs[i].pc = "poll" /\ runs'[i].delivered # runs[i].delivered

\* C26: a run holds the mode and file list of its click for as long as it is
\* in flight, whatever the user selects meanwhile, and its delivery records
\* exactly those as the last successful generation.
C26_RecordsSubmittedInput ==
  [][\A i \in RunIds :
       /\ Started(i) => (runs'[i].user = user /\ runs'[i].files = files)
       /\ (Running(i) /\ ~Started(i)) =>
            (runs'[i].user = runs[i].user /\ runs'[i].files = runs[i].files)
       /\ Delivers(i) =>
            lastGeneration' = Some([user |-> runs[i].user, files |-> runs[i].files])]_vars

\* A run has succeeded after the mode was switched under it: the recorded mode
\* is the submitted one, not the one on screen.
C26_Witness ==
  \E i \in RunIds :
    /\ Ended(i) /\ Succeeded(i) /\ ~loading
    /\ lastGeneration = Some([user |-> runs[i].user, files |-> runs[i].files])
    /\ user # runs[i].user /\ files # runs[i].files

\* The last status response of the resumed run is 'completed' with a result.
CompletedWithResult(i) ==
  /\ runs[i].pc = "poll"
  /\ Answered(i)' /\ LastStatus(i)' = "completed" /\ LastHasResult(i)'

\* C27: the graph handed to the canvas, the rendered graph, the known papers
\* and the recorded last generation change only in a step in which a poll
\* returns 'completed' with a result; every other step of a run, the failing
\* ones included, leaves all four as they were.
C27_FailureLeavesGraph ==
  [][(\E i \in RunIds : CompletedWithResult(i))
       \/ UNCHANGED <<graphData, canvas, papers, lastGeneration>>]_vars

\* A run has failed while an earlier graph and its record are in place.
C27_Witness ==
  \E i \in RunIds :
    /\ Ended(i) /\ Failed(i)
    /\ graphData.nodes # << >> /\ papers # << >> /\ lastGeneration # Null
    /\ runs[i].last # Null /\ runs[i].last[1].net = "ok" /\ runs[i].last[1].result # Null

\* C28: whenever no run is in flight, the progress snapshot held by the page
\* is null.
C28_ProgressNullWhenIdle ==
  (\A i \in RunIds : ~Running(i)) => loadingProgress = Null

\* A run that had shown progress snapshots has ended.
C28_Witness ==
  \E i \in RunIds : Ended(i) /\ runs[i].progress > 1 /\ loadingProgress = Null

\* C29: every update in flight or ended was sent with at least one known
\* paper, and a step that starts an update starts it with papers known and no
\* job in flight.
C29_UpdateNeverEmpty ==
  /\ [](\A i \in RunIds :
          (runs[i].pc # "idle" /\ runs[i].kind = "update") => requestOf(runs[i]).papers # << >>)
  /\ [][\A i \in RunIds :
          (Started(i) /\ runs'[i].kind = "update") => (papers # << >> /\ ~loading)]_vars

\* An update has just been sent with the papers of the graph on display.
C29_Witness ==
  \E i \in RunIds :
    /\ runs[i].pc = "submit" /\ runs[i].kind = "update"
    /\ requestOf(runs[i]).url = "/graph"
    /\ requestOf(runs[i]).papers = papers /\ papers # << >>

\* ---------------------------------------------------------------- properties: canvas and selection

\* The result run i delivers in the step.
DeliveredResult(i) == runs'[i].last[1].result[1]

\* C21: in a step that delivers a result, the rendered nodes and edges are, in
\* order, exactly those of the new result (same ids and endpoints), and a node
\* or edge of the graph rendered before remains only if the new result holds
\* one of its id.
C21_DeliveryReplacesGraph ==
  [][\A i \in RunIds :
       Delivers(i) =>
         LET res == DeliveredResult(i) IN
         /\ DOMAIN canvas'.nodes = DOMAIN res.nodes
         /\ \A k \in DOMAIN res.nodes :
              /\ canvas'.nodes[k].id = res.nodes[k].id
              /\ canvas'.nodes[k].label = res.nodes[k].label
         /\ DOMAIN canvas'.edges = DOMAIN res.edges
         /\ \A k \in DOMAIN res.edges :
              /\ canvas'.edges[k].id = res.edges[k].id
              /\ canvas'.edges[k].source = res.edges[k].source
              /\ canvas'.edges[k].target = res.edges[k].target
         /\ \A n \in Range(canvas.nodes) :
              n \in Range(canvas'.nodes) => \E k \in DOMAIN res.nodes : res.nodes[k].id = n.id
         /\ \A e \in Range(canvas.edges) :
              e \in Range(canvas'.edges) => \E k \in DOMAIN res.edges : res.edges[k].id = e.id]_vars

\* An update of a two-node graph has delivered the one-node result: the second
\* node and the edge of the earlier graph are gone.
C21_Witness ==
  \E i \in RunIds :
    /\ runs[i].kind = "update" /\ Ended(i) /\ Succeeded(i)
    /\ Len(runs[i].papers) = 2
    /\ runs[i].last[1].result[1] = DanglingResult
    /\ Len(canvas.nodes) = 1 /\ \A e \in Range(canvas.edges) : e.id # "e1"

\* The objects ReactFlow can hand to a click handler.
Clickable == Range(canvas.nodes) \cup Range(canvas.edges)

\* C22: in every reachable state at most one of the node detail view and the
\* edge detail view is open and none is open without a selection; a click
\* makes the clicked object the whole selection whatever was selected before,
\* and close leaves nothing selected.
C22_SelectionExclusive ==
  /\ [](/\ ~(NodeModalShown /\ EdgeModalShown)
        /\ openModal = Null => (~NodeModalShown /\ ~EdgeModalShown))
  /\ [][openModal' # openModal => (openModal' = Null \/ openModal'[1] \in Clickable)]_vars

\* An edge of the canvas is the selection and only the edge view is open.
C22_Witness ==
  /\ openModal # Null /\ openModal[1] \in Range(canvas.edges)
  /\ EdgeModalShown /\ ~NodeModalShown

\* C23: a selected entity that has a source and a target is shown in the edge
\* view, every other selected entity in the node view: for every non-empty
\* selection exactly one of the two views is open.
C23_ClassificationTotal ==
  openModal # Null =>
    LET endpoints == {"source", "target"} \subseteq DOMAIN openModal[1] IN
    /\ EdgeModalShown <=> endpoints
    /\ NodeModalShown <=> ~endpoints

\* A node of the canvas is the selection and only the node view is open.
C23_Witness ==
  /\ openModal # Null /\ openModal[1] \in Range(canvas.nodes)
  /\ NodeModalShown /\ ~EdgeModalShown

\* The nodes of the current graph that have the identifier.
NodesOfId(id) == {n \in Range(canvas.nodes) : n.id = id}

\* C24 as stated: an endpoint of the selected edge is shown as the label of the
\* node of that identifier in the current graph, and as the identifier when
\* the graph has no such node.
C24_EndpointLabelOrId ==
  EdgeModalShown =>
    /\ \A n \in NodesOfId(openModal[1].source) : EdgeModalEndpoints.paperA = n.label
    /\ NodesOfId(openModal[1].source) = {} => EdgeModalEndpoints.paperA = openModal[1].source
    /\ \A n \in NodesOfId(openModal[1].target) : EdgeModalEndpoints.paperB = n.label
    /\ NodesOfId(openModal[1].target) = {} => EdgeModalEndpoints.paperB = openModal[1].target

\* What C24 amended shows for an endpoint identifier.
LabelOrId(id) ==
  IF \E n \in NodesOfId(id) : n.label # ""
  THEN (CHOOSE n \in NodesOfId(id) : n.label # "").label
  ELSE id

\* C24 amended: an endpoint of the selected edge is shown as the label of the
\* node of that identifier in the current graph when that label is not empty,
\* and as the identifier when the graph has no such node or its label is the
\* empty string; each endpoint is resolved on its own.
C24_EndpointNonEmptyLabelOrId ==
  EdgeModalShown =>
    /\ EdgeModalEndpoints.paperA = LabelOrId(openModal[1].source)
    /\ EdgeModalEndpoints.paperB = LabelOrId(openModal[1].target)

\* The selected edge has a source in the graph and a dangling target.
C24_Witness ==
  /\ EdgeModalShown
  /\ NodesOfId(openModal[1].source) # {} /\ NodesOfId(openModal[1].target) = {}
  /\ EdgeModalEndpoints = [paperA |-> "Paper 1", paperB |-> "p9"]

\* C30: a step of a run, the delivery of a graph included, leaves the
\* selection as it is.
C30_DeliveryKeepsSelection ==
  [][(StepOfRun \/ canvas' # canvas \/ graphData' # graphData) => openModal' = openModal]_vars

\* The selection is an object that is not in the rendered graph.
C30_Witness == openModal # Null /\ openModal[1] \notin Clickable

====
